---------------------------- MODULE Spec2Model ----------------------------
(***************************************************************************)
(* Scoring and valuation engine of the motorcycle inspection server        *)
(* (server/routes.ts, server/storage.ts, shared/schema.ts).                *)
(*                                                                         *)
(* Numbers.  JavaScript numbers are modelled as exact decimals held in     *)
(* integers:                                                               *)
(*   - a one-decimal number (a penalty of the tables, a scratch or dent    *)
(*     count, a returned category score, finalScore) is held in TENTHS:    *)
(*     8.5 is 85, a count of 1.4 is 14;                                    *)
(*   - the unrounded score inside a scorer is held in HUNDREDTHS           *)
(*     (count x penalty is tenths x tenths): 10 is 1000, 0.5 is 50;        *)
(*   - percentages, years and currency amounts are plain integers.         *)
(* Math.round is round-half-up (towards +Infinity) on the exact value.     *)
(***************************************************************************)
EXTENDS Integers, Sequences, FiniteSets, TLC

VARIABLES
    inspectionData,   \* scoring harness: argument of calculateInspectionScores
    scores,           \* scoring harness: its return value, or NoResult
    valuationArgs,    \* valuation harness: make, model, year, finalScore
    valuation,        \* valuation harness: the returned record, or NoResult
    currentYear,      \* new Date().getFullYear()
    inspections,      \* the inspections table, in insertion order
    scoringRules,     \* the scoring_rules table, by rule id
    response          \* the last HTTP response of the server, or NoResult

vars == <<inspectionData, scores, valuationArgs, valuation, currentYear,
          inspections, scoringRules, response>>

\* "no value yet" of a harness variable
NoResult == [none |-> TRUE]

(***************************************************************************)
(* Bounds of the model                                                     *)
(***************************************************************************)
MaxCount == 30        \* largest whole scratch/dent count tried
MaxAge == 8           \* oldest vehicle tried, in years before currentYear
MaxFuture == 2        \* latest vehicle year tried, in years after currentYear
MaxExcess == 5        \* how far, in tenths, a finalScore is tried outside 0..10
MaxInspections == 2   \* rows the inspections table may hold
MaxYearsPassed == 1   \* calendar years that may pass while the server runs
MaxStored == 2        \* rows the table holds when the read routes are examined
BaseYear == 2025      \* the calendar year the server starts in

(***************************************************************************)
(* Arithmetic helpers                                                      *)
(***************************************************************************)
\* the JavaScript value NaN, kept apart from every number of the model
NaN == 0 - 999999999

\* names every object literal inherits from Object.prototype; their values
\* are functions, which are truthy and turn arithmetic into NaN
inheritedNames == {"constructor", "toString", "valueOf", "hasOwnProperty"}

\* variant: the floor is forgotten
MathMax0_NoFloor(x) == x

\* Math.max(0, x); Math.max(0, NaN) is NaN
MathMax0(x) == IF x = NaN THEN NaN ELSE IF x < 0 THEN 0 ELSE x

\* Math.round(num / den) for den > 0: the nearest integer, halves go up;
\* Math.round(NaN) is NaN
MathRound(num, den) ==
    IF num = NaN THEN NaN ELSE (2 * num + den) \div (2 * den)

\* `if (cond) score -= p`: the amount taken off, p in hundredths.
Deduct(cond, p) == IF cond THEN p ELSE 0

(***************************************************************************)
(* Category scorers (results in hundredths of a point)                     *)
(***************************************************************************)
calculateEngineScore(engineData) ==
    MathMax0(1000
        - Deduct(engineData.oilLeaks = "minor", 50)
        - Deduct(engineData.oilLeaks = "major", 150)
        - Deduct(engineData.smoke = "light", 80)
        - Deduct(engineData.smoke = "heavy", 200)
        - Deduct(engineData.abnormalNoise, 100)
        - Deduct(engineData.hardStart, 70)
        - Deduct(engineData.overheating, 150))

calculateFrameScore(frameData) ==
    MathMax0(1000
        - Deduct(frameData.cracks, 300)
        - Deduct(frameData.rust, 150)
        - Deduct(frameData.bends, 250)
        - Deduct(frameData.repaintMarks, 50))

calculateSuspensionScore(suspensionData) ==
    MathMax0(1000
        - Deduct(suspensionData.leakage, 200)
        - Deduct(suspensionData.stiffness, 150)
        - Deduct(suspensionData.abnormalSound, 100))

\* variant: three independent ifs instead of if / else if, the tiers add up
brakesPadPenalty_Cumulative(padRemaining) ==
      (IF padRemaining < 30 THEN 200 ELSE 0)
    + (IF padRemaining < 50 THEN 100 ELSE 0)
    + (IF padRemaining < 70 THEN 50 ELSE 0)

\* padCondition = padRemaining / 100 compared with 0.3, 0.5, 0.7: the
\* comparison is made on the percentage itself.
brakesPadPenalty(padRemaining) ==
    IF padRemaining < 30 THEN 200
    ELSE IF padRemaining < 50 THEN 100
    ELSE IF padRemaining < 70 THEN 50
    ELSE 0

calculateBrakesScore(brakesData) ==
    MathMax0(1000
        - brakesPadPenalty(brakesData.padRemaining)
        - Deduct(brakesData.discWarp, 150)
        - Deduct(brakesData.fluidLeak, 100)
        - Deduct(~brakesData.absStatus, 50))

\* variant: a tread of 0 is taken for a missing reading and deducts nothing
tiresTreadPenalty_ZeroAsMissing(treadRemaining) ==
    IF treadRemaining = 0 THEN 0
    ELSE IF treadRemaining < 30 THEN 250
    ELSE IF treadRemaining < 50 THEN 150
    ELSE IF treadRemaining < 70 THEN 70
    ELSE 0

tiresTreadPenalty(treadRemaining) ==
    IF treadRemaining < 30 THEN 250
    ELSE IF treadRemaining < 50 THEN 150
    ELSE IF treadRemaining < 70 THEN 70
    ELSE 0

calculateTiresScore(tiresData) ==
    MathMax0(1000
        - tiresTreadPenalty(tiresData.treadRemaining)
        - Deduct(tiresData.cracks, 100)
        - Deduct(tiresData.mismatchedPair, 80)
        - Deduct(tiresData.ageOver5Years, 120))

\* variant: the horn test loses its negation
calculateElectricalsScore_HornInverted(electricalsData) ==
    MathMax0(1000
        - Deduct(~electricalsData.lights, 150)
        - Deduct(~electricalsData.indicators, 100)
        - Deduct(electricalsData.horn, 50)
        - Deduct(~electricalsData.starter, 200)
        - Deduct(electricalsData.batteryCondition = "fair", 100)
        - Deduct(electricalsData.batteryCondition = "poor", 250))

calculateElectricalsScore(electricalsData) ==
    MathMax0(1000
        - Deduct(~electricalsData.lights, 150)
        - Deduct(~electricalsData.indicators, 100)
        - Deduct(~electricalsData.horn, 50)
        - Deduct(~electricalsData.starter, 200)
        - Deduct(electricalsData.batteryCondition = "fair", 100)
        - Deduct(electricalsData.batteryCondition = "poor", 250))

\* penalties in hundredths
fairingConditionPenalties ==
    [excellent |-> 0, good |-> 50, fair |-> 150, poor |-> 300]

\* fairingConditionPenalties[bodyData.fairingCondition] || 0: an inherited
\* name yields a function, which `|| 0` keeps and `score -=` turns into NaN
fairingPenalty(fairingCondition) ==
    IF fairingCondition \in DOMAIN fairingConditionPenalties
    THEN fairingConditionPenalties[fairingCondition]
    ELSE IF fairingCondition \in inheritedNames THEN NaN
    ELSE 0

\* variant: the deduction for scratches and dents is capped at 5.0
calculateBodyScore_CountsCapped(bodyData) ==
    LET counted == bodyData.minorScratches * 1 + bodyData.bigScratches * 3
                   + bodyData.smallDents * 2 + bodyData.bigDents * 5
    IN  MathMax0(1000
            - (IF counted > 500 THEN 500 ELSE counted)
            - Deduct(bodyData.cracks, 150)
            - Deduct(bodyData.repaintPanels, 100)
            - fairingPenalty(bodyData.fairingCondition))

\* counts are in tenths and the per-item penalties 0.1, 0.3, 0.2, 0.5 in
\* tenths, so that each product is in hundredths
calculateBodyScore(bodyData) ==
    MathMax0(IF fairingPenalty(bodyData.fairingCondition) = NaN THEN NaN
             ELSE 1000
                - bodyData.minorScratches * 1
                - bodyData.bigScratches * 3
                - bodyData.smallDents * 2
                - bodyData.bigDents * 5
                - Deduct(bodyData.cracks, 150)
                - Deduct(bodyData.repaintPanels, 100)
                - fairingPenalty(bodyData.fairingCondition))

\* variant: service records deduct when they are present
calculateDocumentsScore_PresentDeducts(documentsData) ==
    MathMax0(1000
        - Deduct(~documentsData.registration, 400)
        - Deduct(~documentsData.importPapers, 300)
        - Deduct(documentsData.serviceRecords, 300))

calculateDocumentsScore(documentsData) ==
    MathMax0(1000
        - Deduct(~documentsData.registration, 400)
        - Deduct(~documentsData.importPapers, 300)
        - Deduct(~documentsData.serviceRecords, 300))

(***************************************************************************)
(* calculateInspectionScores                                               *)
(***************************************************************************)
weights ==
    [engine |-> 40, frame |-> 15, suspension |-> 10, brakes |-> 10,
     tires |-> 10, electricals |-> 5, body |-> 8, documents |-> 2]

\* The weighted sum of the UNROUNDED category scores, before the division
\* by 100: hundredths x weight.
weightedSum(d) ==
    IF calculateBodyScore(d.bodyData) = NaN THEN NaN ELSE
      calculateEngineScore(d.engineData) * weights.engine
    + calculateFrameScore(d.frameData) * weights.frame
    + calculateSuspensionScore(d.suspensionData) * weights.suspension
    + calculateBrakesScore(d.brakesData) * weights.brakes
    + calculateTiresScore(d.tiresData) * weights.tires
    + calculateElectricalsScore(d.electricalsData) * weights.electricals
    + calculateBodyScore(d.bodyData) * weights.body
    + calculateDocumentsScore(d.documentsData) * weights.documents

\* Math.round(score * 10) / 10, score in hundredths, result in tenths
roundScore(score) == MathRound(score, 10)

\* Math.round(finalScore * 10) / 10 with finalScore = weightedSum / 100:
\* weightedSum is in 1/10000, the result in tenths
roundFinalScore(sum) == MathRound(sum, 1000)

\* every returned score is in tenths
calculateInspectionScores(d) ==
    [engineScore      |-> roundScore(calculateEngineScore(d.engineData)),
     frameScore       |-> roundScore(calculateFrameScore(d.frameData)),
     suspensionScore  |-> roundScore(calculateSuspensionScore(d.suspensionData)),
     brakesScore      |-> roundScore(calculateBrakesScore(d.brakesData)),
     tiresScore       |-> roundScore(calculateTiresScore(d.tiresData)),
     electricalsScore |-> roundScore(calculateElectricalsScore(d.electricalsData)),
     bodyScore        |-> roundScore(calculateBodyScore(d.bodyData)),
     documentsScore   |-> roundScore(calculateDocumentsScore(d.documentsData)),
     finalScore       |-> roundFinalScore(weightedSum(d))]

(***************************************************************************)
(* Strings.  make and model are sequences of one-character strings, so     *)
(* that toLowerCase is computed; a missing (undefined) field is Undefined. *)
(***************************************************************************)
Undefined == <<"undefined value">>

lowerOf ==
    "A" :> "a" @@ "B" :> "b" @@ "C" :> "c" @@ "D" :> "d" @@ "E" :> "e" @@ "F" :> "f" @@
    "G" :> "g" @@ "H" :> "h" @@ "I" :> "i" @@ "J" :> "j" @@ "K" :> "k" @@ "L" :> "l" @@
    "M" :> "m" @@ "N" :> "n" @@ "O" :> "o" @@ "P" :> "p" @@ "Q" :> "q" @@ "R" :> "r" @@
    "S" :> "s" @@ "T" :> "t" @@ "U" :> "u" @@ "V" :> "v" @@ "W" :> "w" @@ "X" :> "x" @@
    "Y" :> "y" @@ "Z" :> "z"

\* variant: the key is used as it was typed
toLowerCase_AsTyped(str) == str

\* String.prototype.toLowerCase
toLowerCase(str) ==
    [i \in DOMAIN str |-> IF str[i] \in DOMAIN lowerOf THEN lowerOf[str[i]] ELSE str[i]]

\* x?.toLowerCase()
optToLowerCase(x) == IF x = Undefined THEN Undefined ELSE toLowerCase(x)

(***************************************************************************)
(* calculateMarketValuation                                                *)
(***************************************************************************)
\* the own properties of the object literal `baselines`
baselines ==
    <<"h","o","n","d","a">> :>
        (<<"c","d","-","7","0">> :> 159900 @@
         <<"c","g","-","1","2","5">> :> 238500 @@
         <<"p","r","i","d","o","r">> :> 211900 @@
         <<"c","b","-","1","2","5","f">> :> 390900 @@
         <<"c","b","-","1","5","0","f">> :> 497900) @@
    <<"s","u","z","u","k","i">> :>
        (<<"g","d","-","1","1","0","s">> :> 369900 @@
         <<"g","s","-","1","5","0">> :> 389000 @@
         <<"g","s","x","-","1","2","5">> :> 499000 @@
         <<"g","r","-","1","5","0">> :> 552900) @@
    <<"y","a","m","a","h","a">> :>
        (<<"y","b","r","-","1","2","5">> :> 471500 @@
         <<"y","b","r","-","1","2","5","g">> :> 490500 @@
         <<"y","b","-","1","2","5","z">> :> 429000) @@
    <<"u","n","i","t","e","d">> :>
        (<<"u","s","-","7","0">> :> 111000 @@
         <<"u","s","-","1","0","0">> :> 108500 @@
         <<"u","s","-","1","2","5">> :> 79500 @@
         <<"u","s","-","1","5","0">> :> 347500) @@
    <<"r","o","a","d","-","p","r","i","n","c","e">> :>
        (<<"r","p","-","7","0">> :> 111000 @@
         <<"7","0","-","p","a","s","s","i","o","n","-","p","l","u","s">> :> 121000 @@
         <<"r","p","-","1","2","5">> :> 167000 @@
         <<"1","5","0","-","w","e","g","o">> :> 419000 @@
         <<"r","x","3">> :> 1100000) @@
    <<"u","n","i","q","u","e">> :>
        (<<"u","d","-","7","0">> :> 118500 @@
         <<"1","2","5","c","c">> :> 141000 @@
         <<"1","5","0","c","c">> :> 285000 @@
         <<"c","r","a","z","e","r","-","u","d","-","1","5","0">> :> 685000)

\* `baselines` is a plain object: a key it does not own is looked up on
\* Object.prototype.  The one lower-case key found there that yields a
\* number is "constructor" (the Object function), whose "length" is 1.
inheritedBaselines ==
    <<"c","o","n","s","t","r","u","c","t","o","r">> :> (<<"l","e","n","g","t","h">> :> 1)

fallbackBaseline == 200000

\* lower-case names every brand's own price object inherits from
\* Object.prototype: the lookup finds a function, which `|| 200000` keeps
\* and the multiplication turns into NaN
inheritedModels == {<<"c","o","n","s","t","r","u","c","t","o","r">>}


\* baselines[make?.toLowerCase()]?.[model?.toLowerCase()] || 200000
lookupBaseline(make, model) ==
    LET b == optToLowerCase(make)
        m == optToLowerCase(model)
    IN  IF b \in DOMAIN baselines
        THEN IF m \in DOMAIN baselines[b] THEN baselines[b][m]
             ELSE IF m \in inheritedModels THEN NaN
             ELSE fallbackBaseline
        ELSE IF b \in DOMAIN inheritedBaselines /\ m \in DOMAIN inheritedBaselines[b]
        THEN inheritedBaselines[b][m]
        ELSE fallbackBaseline

\* variant: the 50 % cap is forgotten
depreciationRate_NoCap(age) == age * 8

\* Math.min(age * 0.08, 0.5), in percent
depreciationRate(age) == IF age * 8 < 50 THEN age * 8 ELSE 50

\* variant: the product is truncated instead of rounded
roundProduct_Truncated(a, b, den) ==
    (a \div den) * b + ((a % den) * b) \div den

\* Math.round(a * b / den) for a >= 0, den > 0, computed without leaving
\* 32 bits: a = q * den + r gives a * b / den = q * b + r * b / den.
roundProduct(a, b, den) ==
    (a \div den) * b + MathRound((a % den) * b, den)

\* variant: the baseline is kept in a table shared by the requests and
\* grows with every stored inspection
calculateMarketValuation_SharedState(make, model, year, finalScore, thisYear) ==
    LET base == lookupBaseline(make, model) + Len(inspections)
        age == thisYear - year
        adjusted == base * (100 - depreciationRate(age))
    IN  [marketBaseline |-> MathRound(adjusted, 100),
         estimatedValue |-> roundProduct(adjusted, finalScore, 10000)]

\* variant: the estimate is taken from the rounded marketBaseline
calculateMarketValuation_FromRounded(make, model, year, finalScore, thisYear) ==
    LET base == lookupBaseline(make, model)
        age == thisYear - year
        adjusted == base * (100 - depreciationRate(age))
    IN  [marketBaseline |-> MathRound(adjusted, 100),
         estimatedValue |-> roundProduct(MathRound(adjusted, 100), finalScore, 100)]

\* variant: a flat 1000 is added to the estimate
calculateMarketValuation_FlatFee(make, model, year, finalScore, thisYear) ==
    LET base == lookupBaseline(make, model)
        age == thisYear - year
        adjusted == base * (100 - depreciationRate(age))
    IN  [marketBaseline |-> MathRound(adjusted, 100),
         estimatedValue |-> roundProduct(adjusted, finalScore, 10000) + 1000]

\* thisYear is new Date().getFullYear(); finalScore is in tenths.
\* adjusted is marketBaseline after depreciation, in hundredths;
\* estimatedValue = adjusted/100 * (finalScore/10)/10.
calculateMarketValuation(make, model, year, finalScore, thisYear) ==
    LET base == lookupBaseline(make, model)
        age == thisYear - year
        adjusted == base * (100 - depreciationRate(age))
    IN  [marketBaseline |-> IF base = NaN THEN NaN ELSE MathRound(adjusted, 100),
         estimatedValue |-> IF base = NaN \/ finalScore = NaN THEN NaN
                            ELSE roundProduct(adjusted, finalScore, 10000)]

(***************************************************************************)
(* Observations accepted by the inspection schema (insertInspectionSchema) *)
(***************************************************************************)
Percentages == 0..100

\* scratch and dent counts tried, in tenths: 0, 0.4, 1, 1.4 and MaxCount
\* (the schema asks for a number >= 0, not for an integer)
CountValues == {0, 4, 10, 14, MaxCount * 10}

EngineObs ==
    [oilLeaks : {"none", "minor", "major"}, smoke : {"none", "light", "heavy"},
     abnormalNoise : BOOLEAN, hardStart : BOOLEAN, overheating : BOOLEAN]

FrameObs ==
    [cracks : BOOLEAN, rust : BOOLEAN, bends : BOOLEAN, repaintMarks : BOOLEAN]

SuspensionObs ==
    [leakage : BOOLEAN, stiffness : BOOLEAN, abnormalSound : BOOLEAN]

BrakesObs ==
    [padRemaining : Percentages, discWarp : BOOLEAN, absStatus : BOOLEAN,
     fluidLeak : BOOLEAN]

TiresObs ==
    [treadRemaining : Percentages, cracks : BOOLEAN, mismatchedPair : BOOLEAN,
     ageOver5Years : BOOLEAN]

ElectricalsObs ==
    [lights : BOOLEAN, indicators : BOOLEAN, horn : BOOLEAN, starter : BOOLEAN,
     batteryCondition : {"good", "fair", "poor"}]

BodyObs ==
    [minorScratches : CountValues, bigScratches : CountValues,
     smallDents : CountValues, bigDents : CountValues,
     cracks : BOOLEAN, repaintPanels : BOOLEAN,
     fairingCondition : {"excellent", "good", "fair", "poor"}]

DocumentsObs ==
    [registration : BOOLEAN, importPapers : BOOLEAN, serviceRecords : BOOLEAN]

\* the form's defaults with nothing adverse: the all-perfect inspection
perfectData ==
    [engineData |-> [oilLeaks |-> "none", smoke |-> "none", abnormalNoise |-> FALSE,
                     hardStart |-> FALSE, overheating |-> FALSE],
     frameData |-> [cracks |-> FALSE, rust |-> FALSE, bends |-> FALSE,
                    repaintMarks |-> FALSE],
     suspensionData |-> [leakage |-> FALSE, stiffness |-> FALSE,
                         abnormalSound |-> FALSE],
     brakesData |-> [padRemaining |-> 75, discWarp |-> FALSE, absStatus |-> TRUE,
                     fluidLeak |-> FALSE],
     tiresData |-> [treadRemaining |-> 80, cracks |-> FALSE,
                    mismatchedPair |-> FALSE, ageOver5Years |-> FALSE],
     electricalsData |-> [lights |-> TRUE, indicators |-> TRUE, horn |-> TRUE,
                          starter |-> TRUE, batteryCondition |-> "good"],
     bodyData |-> [minorScratches |-> 0, bigScratches |-> 0, smallDents |-> 0,
                   bigDents |-> 0, cracks |-> FALSE, repaintPanels |-> FALSE,
                   fairingCondition |-> "excellent"],
     documentsData |-> [registration |-> TRUE, importPapers |-> TRUE,
                        serviceRecords |-> TRUE]]

\* every adverse condition at once
worstData ==
    [engineData |-> [oilLeaks |-> "major", smoke |-> "heavy", abnormalNoise |-> TRUE,
                     hardStart |-> TRUE, overheating |-> TRUE],
     frameData |-> [cracks |-> TRUE, rust |-> TRUE, bends |-> TRUE,
                    repaintMarks |-> TRUE],
     suspensionData |-> [leakage |-> TRUE, stiffness |-> TRUE,
                         abnormalSound |-> TRUE],
     brakesData |-> [padRemaining |-> 0, discWarp |-> TRUE, absStatus |-> FALSE,
                     fluidLeak |-> TRUE],
     tiresData |-> [treadRemaining |-> 0, cracks |-> TRUE,
                    mismatchedPair |-> TRUE, ageOver5Years |-> TRUE],
     electricalsData |-> [lights |-> FALSE, indicators |-> FALSE, horn |-> FALSE,
                          starter |-> FALSE, batteryCondition |-> "poor"],
     bodyData |-> [minorScratches |-> MaxCount * 10, bigScratches |-> MaxCount * 10,
                   smallDents |-> MaxCount * 10, bigDents |-> MaxCount * 10,
                   cracks |-> TRUE, repaintPanels |-> TRUE,
                   fairingCondition |-> "poor"],
     documentsData |-> [registration |-> FALSE, importPapers |-> FALSE,
                        serviceRecords |-> FALSE]]

BaseData == {perfectData, worstData}

\* one category swept over all its observations, the others as in base b
IsSweepInput(d) ==
    \E b \in BaseData :
        \/ \E o \in EngineObs : d = [b EXCEPT !.engineData = o]
        \/ \E o \in FrameObs : d = [b EXCEPT !.frameData = o]
        \/ \E o \in SuspensionObs : d = [b EXCEPT !.suspensionData = o]
        \/ \E o \in BrakesObs : d = [b EXCEPT !.brakesData = o]
        \/ \E o \in TiresObs : d = [b EXCEPT !.tiresData = o]
        \/ \E o \in ElectricalsObs : d = [b EXCEPT !.electricalsData = o]
        \/ \E o \in BodyObs : d = [b EXCEPT !.bodyData = o]
        \/ \E o \in DocumentsObs : d = [b EXCEPT !.documentsData = o]

\* a few observations of every category, combined freely
MixedInputs ==
    [engineData : {perfectData.engineData, worstData.engineData,
                   [perfectData.engineData EXCEPT !.oilLeaks = "major"]},
     frameData : {perfectData.frameData,
                  [perfectData.frameData EXCEPT !.cracks = TRUE]},
     suspensionData : {perfectData.suspensionData},
     brakesData : {perfectData.brakesData,
                   [perfectData.brakesData EXCEPT !.padRemaining = 29]},
     tiresData : {perfectData.tiresData},
     electricalsData : {perfectData.electricalsData,
                        [perfectData.electricalsData EXCEPT !.horn = FALSE]},
     bodyData : {perfectData.bodyData,
                 [perfectData.bodyData EXCEPT !.minorScratches = 14],
                 [perfectData.bodyData EXCEPT !.bigDents = 10]},
     documentsData : {perfectData.documentsData,
                      [perfectData.documentsData EXCEPT !.registration = FALSE],
                      [perfectData.documentsData EXCEPT !.registration = FALSE,
                                                        !.importPapers = FALSE]}]

(***************************************************************************)
(* Scoring harness: calculateInspectionScores applied to one payload       *)
(***************************************************************************)
\* the weights of the seeded scoring rules, by category
seededRules ==
    [engine |-> [weight |-> 40], frame |-> [weight |-> 15],
     suspension |-> [weight |-> 10], brakes |-> [weight |-> 10],
     tires |-> [weight |-> 10], electricals |-> [weight |-> 5],
     body |-> [weight |-> 8], documents |-> [weight |-> 2]]

ServerIdle ==
    /\ currentYear = BaseYear
    /\ inspections = <<>>
    /\ scoringRules = seededRules
    /\ response = NoResult

InitScore ==
    /\ \/ IsSweepInput(inspectionData)
       \/ inspectionData \in MixedInputs
    /\ scores = NoResult
    /\ valuationArgs = NoResult /\ valuation = NoResult
    /\ ServerIdle

Score ==
    /\ scores = NoResult
    /\ scores' = calculateInspectionScores(inspectionData)
    /\ UNCHANGED <<inspectionData, valuationArgs, valuation, currentYear,
                   inspections, scoringRules, response>>

NextScore == Score

SpecScore == InitScore /\ [][NextScore]_vars

(***************************************************************************)
(* Raw scoring harness: the scorers applied to a payload that has not been *)
(* validated, as POST /api/inspections does before it parses the body      *)
(***************************************************************************)
\* values an enum field of an unvalidated body may hold: the levels of the
\* schema, a word that is no level, and a name inherited by every object
UnvalidatedLevels(levels) == levels \cup {"unknown", "constructor"}

InitRaw ==
    /\ \E base \in {perfectData, worstData},
          o \in UnvalidatedLevels({"none", "minor", "major"}),
          s \in UnvalidatedLevels({"none", "light", "heavy"}),
          b \in UnvalidatedLevels({"good", "fair", "poor"}),
          f \in UnvalidatedLevels({"excellent", "good", "fair", "poor"}) :
            inspectionData =
                [base EXCEPT !.engineData.oilLeaks = o,
                             !.engineData.smoke = s,
                             !.electricalsData.batteryCondition = b,
                             !.bodyData.fairingCondition = f]
    /\ scores = NoResult
    /\ valuationArgs = NoResult /\ valuation = NoResult
    /\ ServerIdle

SpecRaw == InitRaw /\ [][NextScore]_vars

(***************************************************************************)
(* Valuation harness: calculateMarketValuation applied to one argument list *)
(***************************************************************************)
\* the keys of the price table
TablePairs ==
    UNION {{<<b, m>> : m \in DOMAIN baselines[b]} : b \in DOMAIN baselines}

\* display names of the seeded catalog, other spellings, unknown and
\* missing names
OtherPairs ==
    {<<<<"H","o","n","d","a">>, <<"C","D"," ","7","0">>>>,
     <<<<"H","o","n","d","a">>, <<"C","D","-","7","0">>>>,
     <<<<"H","O","N","D","A">>, <<"c","d","-","7","0">>>>,
     <<<<"H","o","n","d","a">>, <<"G","o","l","d"," ","W","i","n","g">>>>,
     <<<<"H","o","n","d","a">>, Undefined>>,
     <<<<"R","o","a","d"," ","P","r","i","n","c","e">>, <<"R","X","3">>>>,
     <<<<"B","a","j","a","j">>, <<"P","u","l","s","a","r">>>>,
     <<<<"c","o","n","s","t","r","u","c","t","o","r">>, <<"l","e","n","g","t","h">>>>,
     <<Undefined, <<"c","d","-","7","0">>>>,
     <<Undefined, Undefined>>}

\* the seeded catalog: (brand.name, model.name) as the inspection form
\* sends them for make and model
seededCatalog ==
    {<<<<"H","o","n","d","a">>,
       <<"C","D"," ","7","0">>>>,
     <<<<"H","o","n","d","a">>,
       <<"C","D"," ","7","0"," ","D","r","e","a","m">>>>,
     <<<<"H","o","n","d","a">>,
       <<"C","G"," ","1","2","5">>>>,
     <<<<"H","o","n","d","a">>,
       <<"C","G"," ","1","2","5"," ","S","p","e","c","i","a","l"," ","E","d","i","t","i","o","n">>>>,
     <<<<"H","o","n","d","a">>,
       <<"P","r","i","d","o","r">>>>,
     <<<<"H","o","n","d","a">>,
       <<"C","B"," ","1","2","5","F">>>>,
     <<<<"H","o","n","d","a">>,
       <<"C","B"," ","1","5","0","F">>>>,
     <<<<"S","u","z","u","k","i">>,
       <<"G","D"," ","1","1","0","S">>>>,
     <<<<"S","u","z","u","k","i">>,
       <<"G","S"," ","1","5","0">>>>,
     <<<<"S","u","z","u","k","i">>,
       <<"G","S","X"," ","1","2","5">>>>,
     <<<<"S","u","z","u","k","i">>,
       <<"G","R"," ","1","5","0">>>>,
     <<<<"Y","a","m","a","h","a">>,
       <<"Y","B","R"," ","1","2","5">>>>,
     <<<<"Y","a","m","a","h","a">>,
       <<"Y","B","R"," ","1","2","5","G">>>>,
     <<<<"Y","a","m","a","h","a">>,
       <<"Y","B"," ","1","2","5","Z">>>>,
     <<<<"U","n","i","t","e","d"," ","M","o","t","o","r","s">>,
       <<"U","S"," ","7","0">>>>,
     <<<<"U","n","i","t","e","d"," ","M","o","t","o","r","s">>,
       <<"U","S"," ","1","0","0">>>>,
     <<<<"U","n","i","t","e","d"," ","M","o","t","o","r","s">>,
       <<"U","S"," ","1","0","0"," ","J","a","z","b","a">>>>,
     <<<<"U","n","i","t","e","d"," ","M","o","t","o","r","s">>,
       <<"U","S"," ","1","2","5"," ","E","u","r","o"," ","I","I">>>>,
     <<<<"U","n","i","t","e","d"," ","M","o","t","o","r","s">>,
       <<"U","S"," ","1","5","0"," ","U","l","t","i","m","a","t","e"," ","T","h","r","i","l","l">>>>,
     <<<<"R","o","a","d"," ","P","r","i","n","c","e">>,
       <<"R","P"," ","7","0">>>>,
     <<<<"R","o","a","d"," ","P","r","i","n","c","e">>,
       <<"7","0"," ","P","a","s","s","i","o","n"," ","P","l","u","s">>>>,
     <<<<"R","o","a","d"," ","P","r","i","n","c","e">>,
       <<"R","P"," ","1","2","5">>>>,
     <<<<"R","o","a","d"," ","P","r","i","n","c","e">>,
       <<"1","5","0"," ","W","e","g","o">>>>,
     <<<<"R","o","a","d"," ","P","r","i","n","c","e">>,
       <<"1","5","0"," ","R","o","b","i","n","s","o","n">>>>,
     <<<<"R","o","a","d"," ","P","r","i","n","c","e">>,
       <<"R","X","3">>>>,
     <<<<"U","n","i","q","u","e">>,
       <<"U","D"," ","7","0">>>>,
     <<<<"U","n","i","q","u","e">>,
       <<"1","2","5","c","c">>>>,
     <<<<"U","n","i","q","u","e">>,
       <<"1","5","0","c","c">>>>,
     <<<<"U","n","i","q","u","e">>,
       <<"C","r","a","z","e","r"," ","U","D","-","1","5","0">>>>}

VehicleYears == (BaseYear - MaxAge)..(BaseYear + MaxFuture)

FinalScoreInputs == (0 - MaxExcess)..(100 + MaxExcess)

InitValue ==
    /\ \E p \in TablePairs \cup OtherPairs \cup seededCatalog, y \in VehicleYears,
          f \in FinalScoreInputs :
            valuationArgs = [make |-> p[1], model |-> p[2], year |-> y,
                             finalScore |-> f]
    /\ valuation = NoResult
    /\ inspectionData = NoResult /\ scores = NoResult
    /\ ServerIdle

Valuate ==
    /\ valuation = NoResult
    /\ valuation' = calculateMarketValuation(valuationArgs.make, valuationArgs.model,
                        valuationArgs.year, valuationArgs.finalScore, currentYear)
    /\ UNCHANGED <<inspectionData, scores, valuationArgs, currentYear,
                   inspections, scoringRules, response>>

\* how the stored decimal final_score reaches the results page: the page
\* declares a number; a database driver may hand a decimal over as text
FinalScoreForms == {"number", "text"}

\* JavaScript truthiness of inspection.finalScore (tenths): the number 0
\* is falsy, a non-empty text such as "0.0" is truthy
truthyFinalScore(finalScore, form) == form = "text" \/ finalScore # 0

\* InspectionResults: conditionAdjustment, in percent;
\* ((finalScore / 10) - 1) * 100 with finalScore in tenths
conditionAdjustment(finalScore, form) ==
    IF truthyFinalScore(finalScore, form) THEN finalScore - 100 ELSE 0

\* the results page renders an inspection that carries the valued score
RenderResults ==
    /\ valuation # NoResult
    /\ response = NoResult
    /\ \E form \in FinalScoreForms :
          response' = [finalScoreForm |-> form,
                       conditionAdjustment |->
                           conditionAdjustment(valuationArgs.finalScore, form)]
    /\ UNCHANGED <<inspectionData, scores, valuationArgs, valuation, currentYear,
                   inspections, scoringRules>>

NextValue == Valuate \/ RenderResults

SpecValue == InitValue /\ [][NextValue]_vars

(***************************************************************************)
(* Valuation harness for models named like an inherited property           *)
(***************************************************************************)
\* a brand of the price table, as stored or as typed, with a model whose
\* name every object inherits
InheritedPairs ==
    {<<b, m>> : b \in DOMAIN baselines \cup {<<"H","o","n","d","a">>},
                m \in inheritedModels \cup {<<"C","o","n","s","t","r","u","c","t","o","r">>}}

InitInherited ==
    /\ \E p \in InheritedPairs, y \in VehicleYears, f \in FinalScoreInputs :
            valuationArgs = [make |-> p[1], model |-> p[2], year |-> y,
                             finalScore |-> f]
    /\ valuation = NoResult
    /\ inspectionData = NoResult /\ scores = NoResult
    /\ ServerIdle

SpecInherited == InitInherited /\ [][NextValue]_vars

(***************************************************************************)
(* The server: POST /api/inspections, PUT /api/scoring-rules/:id, and the  *)
(* calendar                                                                *)
(***************************************************************************)
Users == {"admin-1", "mechanic-1", "mechanic-2"}

\* users.role
roleOf == [u \in Users |-> IF u = "admin-1" THEN "admin" ELSE "mechanic"]

\* a category observation object that the request body does not carry
MissingData == [undefined |-> TRUE]

ObservationFields ==
    {"engineData", "frameData", "suspensionData", "brakesData", "tiresData",
     "electricalsData", "bodyData", "documentsData"}

\* variant: the engine scorer also throws on a major oil leak
scorersThrow_OnMajorLeak(body) ==
    \/ \E f \in ObservationFields : body[f] = MissingData
    \/ body.engineData.oilLeaks = "major"

\* the scorers read a property of each observation object: a missing
\* object makes calculateInspectionScores throw a TypeError
scorersThrow(body) == \E f \in ObservationFields : body[f] = MissingData

\* insertInspectionSchema: the required columns and the eight observation
\* objects of the .extend({...}) block
validInspection(row) ==
    /\ row.make # Undefined /\ row.model # Undefined
    /\ row.chassisNo # Undefined /\ row.engineNo # Undefined
    /\ \A f \in ObservationFields : row[f] # MissingData
    /\ row.engineData.oilLeaks \in {"none", "minor", "major"}
    /\ row.engineData.smoke \in {"none", "light", "heavy"}
    /\ row.brakesData.padRemaining >= 0 /\ row.brakesData.padRemaining <= 100
    /\ row.tiresData.treadRemaining >= 0 /\ row.tiresData.treadRemaining <= 100
    /\ row.electricalsData.batteryCondition \in {"good", "fair", "poor"}
    /\ row.bodyData.minorScratches >= 0 /\ row.bodyData.bigScratches >= 0
    /\ row.bodyData.smallDents >= 0 /\ row.bodyData.bigDents >= 0
    /\ row.bodyData.fairingCondition \in {"excellent", "good", "fair", "poor"}

\* variant: the insert overwrites the latest row instead of adding one
createInspection_ReplaceLast(table, row) ==
    IF table = <<>> THEN <<row>> ELSE [table EXCEPT ![Len(table)] = row]

\* DatabaseStorage.createInspection: insert one row
createInspection(table, row) == Append(table, row)

\* DatabaseStorage.updateScoringRule: update ... where id = :id
updateScoringRule(rules, id, rule) ==
    IF id \in DOMAIN rules THEN [rules EXCEPT ![id] = rule] ELSE rules

\* the engine example of the specification: everything clear except
\* oilLeaks = "major"
exampleData == [perfectData EXCEPT !.engineData.oilLeaks = "major"]

Vehicle(make, model, year) ==
    [make |-> make, model |-> model, year |-> year,
     chassisNo |-> <<"C","H","1">>, engineNo |-> <<"E","N","1">>]

\* request bodies of POST /api/inspections that are tried
RequestBodies ==
    {Vehicle(<<"H","o","n","d","a">>, <<"C","D"," ","7","0">>, BaseYear) @@ exampleData,
     Vehicle(<<"h","o","n","d","a">>, <<"c","d","-","7","0">>, BaseYear - 3) @@ perfectData,
     \* a body that carries result fields and an inspectorId of its own
     Vehicle(<<"B","a","j","a","j">>, <<"P","u","l","s","a","r">>, BaseYear + 1) @@ worstData
         @@ [inspectorId |-> "admin-1", engineScore |-> 100, bodyScore |-> 100,
             finalScore |-> 100, marketBaseline |-> 999999,
             estimatedValue |-> 999999],
     \* Save Draft of the form: status "draft" in the body
     [status |-> "draft"]
         @@ [Vehicle(<<"y","a","m","a","h","a">>, <<"y","b","r","-","1","2","5">>, BaseYear - 1)
                EXCEPT !.chassisNo = <<"D","R","A","F","T">>]
         @@ perfectData,
     [Vehicle(<<"h","o","n","d","a">>, <<"c","d","-","7","0">>, BaseYear) EXCEPT !.chassisNo = Undefined]
         @@ perfectData,
     Vehicle(<<"H","o","n","d","a">>, <<"C","D"," ","7","0">>, BaseYear)
         @@ [perfectData EXCEPT !.engineData = MissingData]}

\* variant: the request body is spread last and overrides the rest
mergedInspection_BodyLast(user, body, thisYear) ==
    LET sc == calculateInspectionScores(body)
        v == calculateMarketValuation(body.make, body.model, body.year,
                                      sc.finalScore, thisYear)
    IN  body @@ [status |-> "completed"] @@ v @@ sc @@ [inspectorId |-> user]

\* the object handed to insertInspectionSchema.parse:
\* {...req.body, inspectorId, ...scores, ...valuation, status: 'completed'};
\* a later spread overrides an earlier one
mergedInspection(user, body, thisYear) ==
    LET sc == calculateInspectionScores(body)
        v == calculateMarketValuation(body.make, body.model, body.year,
                                      sc.finalScore, thisYear)
    IN  [status |-> "completed"] @@ v @@ sc @@ [inspectorId |-> user] @@ body

\* app.post('/api/inspections', isAuthenticated, ...)
PostInspection(user, body) ==
    /\ Len(inspections) < MaxInspections
    /\ IF scorersThrow(body)
       THEN /\ response' = [status |-> 500, message |-> "Failed to create inspection"]
            /\ UNCHANGED inspections
       ELSE LET data == mergedInspection(user, body, currentYear)
            IN  IF validInspection(data)
                THEN /\ inspections' =
                            createInspection(inspections,
                                             data @@ [createdAt |-> currentYear])
                     /\ response' = [status |-> 200, message |-> "ok"]
                ELSE /\ response' = [status |-> 400, message |-> "Invalid inspection data"]
                     /\ UNCHANGED inspections
    /\ UNCHANGED <<inspectionData, scores, valuationArgs, valuation, currentYear,
                   scoringRules>>

RuleIds == {"engine", "no-such-rule"}
WeightsTried == {40, 50}

\* variant: the role is not looked at
PutScoringRule_NoRoleCheck(user, id, weight, complete) ==
    /\ IF ~complete
       THEN /\ response' = [status |-> 400, message |-> "Invalid data"]
            /\ UNCHANGED scoringRules
       ELSE /\ scoringRules' = updateScoringRule(scoringRules, id, [weight |-> weight])
            /\ response' = [status |-> 200, message |-> "ok"]
    /\ UNCHANGED <<inspectionData, scores, valuationArgs, valuation, currentYear,
                   inspections>>

\* app.put('/api/scoring-rules/:id', isAuthenticated, ...); complete says
\* whether the body carries the category and deductionRules that
\* insertScoringRuleSchema requires besides the weight
PutScoringRule(user, id, weight, complete) ==
    /\ IF roleOf[user] # "admin"
       THEN /\ response' = [status |-> 403, message |-> "Admin access required"]
            /\ UNCHANGED scoringRules
       ELSE IF ~complete
       THEN /\ response' = [status |-> 400, message |-> "Invalid data"]
            /\ UNCHANGED scoringRules
       ELSE /\ scoringRules' = updateScoringRule(scoringRules, id, [weight |-> weight])
            /\ response' = [status |-> 200, message |-> "ok"]
    /\ UNCHANGED <<inspectionData, scores, valuationArgs, valuation, currentYear,
                   inspections>>

\* app.get('/api/scoring-rules', isAuthenticated, ...)
GetScoringRules(user) ==
    /\ response' =
          IF roleOf[user] # "admin"
          THEN [status |-> 403, message |-> "Admin access required"]
          ELSE [status |-> 200, message |-> "ok", rules |-> scoringRules]
    /\ UNCHANGED <<inspectionData, scores, valuationArgs, valuation, currentYear,
                   inspections, scoringRules>>

\* orderBy(desc(inspections.createdAt)): the newest row first
newestFirst(table) == [i \in 1..Len(table) |-> table[Len(table) + 1 - i]]

\* .limit(n)
limitTo(rows, n) == IF Len(rows) <= n THEN rows ELSE SubSeq(rows, 1, n)

\* like(column, `%${query}%`)
likeContains(str, query) ==
    \E i \in 0..(Len(str) - Len(query)) : SubSeq(str, i + 1, i + Len(query)) = query

\* DatabaseStorage.getUserInspections
getUserInspections(table, userId, limit) ==
    LET IsOwn(row) == row.inspectorId = userId
    IN  limitTo(newestFirst(SelectSeq(table, IsOwn)), limit)

\* DatabaseStorage.getAllInspections
getAllInspections(table, limit) == limitTo(newestFirst(table), limit)

\* DatabaseStorage.searchInspections
searchInspections(table, query) ==
    LET Matches(row) == likeContains(row.chassisNo, query)
    IN  limitTo(newestFirst(SelectSeq(table, Matches)), 50)

\* req.query.search: absent, or a text looked for in the chassis number
Searches == {Undefined, <<"C","H">>, <<"D","R">>}

\* req.query.limit; 0 stands for an absent limit (parseInt gives NaN)
Limits == {0, 1}

\* parseInt(limit) || fallback
parseLimit(limit, fallback) == IF limit = 0 THEN fallback ELSE limit

\* app.get('/api/inspections', isAuthenticated, ...)
GetInspections(user, search, limit) ==
    /\ response' =
          [status |-> 200, message |-> "ok",
           body |-> IF search # Undefined
                    THEN searchInspections(inspections, search)
                    ELSE IF roleOf[user] = "admin"
                    THEN getAllInspections(inspections, parseLimit(limit, 100))
                    ELSE getUserInspections(inspections, user, parseLimit(limit, 50))]
    /\ UNCHANGED <<inspectionData, scores, valuationArgs, valuation, currentYear,
                   inspections, scoringRules>>

\* app.get('/api/inspections/:id', isAuthenticated, ...); ids are the
\* positions of the rows
GetInspection(user, id) ==
    /\ response' =
          IF id \notin DOMAIN inspections
          THEN [status |-> 404, message |-> "Inspection not found"]
          ELSE IF roleOf[user] # "admin" /\ inspections[id].inspectorId # user
          THEN [status |-> 403, message |-> "Access denied"]
          ELSE [status |-> 200, message |-> "ok", body |-> <<inspections[id]>>]
    /\ UNCHANGED <<inspectionData, scores, valuationArgs, valuation, currentYear,
                   inspections, scoringRules>>

\* a calendar year passes: new Date().getFullYear() grows
YearPasses ==
    /\ currentYear < BaseYear + MaxYearsPassed
    /\ currentYear' = currentYear + 1
    /\ UNCHANGED <<inspectionData, scores, valuationArgs, valuation,
                   inspections, scoringRules, response>>

Init ==
    /\ ServerIdle
    /\ inspectionData = NoResult /\ scores = NoResult
    /\ valuationArgs = NoResult /\ valuation = NoResult

Next ==
    \/ \E u \in Users, b \in RequestBodies : PostInspection(u, b)
    \/ \E u \in Users, id \in RuleIds, w \in WeightsTried, c \in BOOLEAN :
          PutScoringRule(u, id, w, c)
    \/ YearPasses

Spec == Init /\ [][Next]_vars

(***************************************************************************)
(* The read routes and the access rules.  The table holds what POST        *)
(* requests of the users have left in it; the GET routes do not change it. *)
(***************************************************************************)
\* the rows POST /api/inspections stores for the valid request bodies
StoredRows ==
    {mergedInspection(u, b, BaseYear) @@ [createdAt |-> BaseYear] :
        u \in Users, b \in {r \in RequestBodies : validInspection(r)}}

InitAccess ==
    /\ inspections \in UNION {[1..n -> StoredRows] : n \in 0..MaxStored}
    /\ currentYear = BaseYear
    /\ scoringRules = seededRules
    /\ response = NoResult
    /\ inspectionData = NoResult /\ scores = NoResult
    /\ valuationArgs = NoResult /\ valuation = NoResult

NextAccess ==
    \/ \E u \in Users, id \in RuleIds, w \in WeightsTried, c \in BOOLEAN :
          PutScoringRule(u, id, w, c)
    \/ \E u \in Users : GetScoringRules(u)
    \/ \E u \in Users, q \in Searches, l \in Limits : GetInspections(u, q, l)
    \/ \E u \in Users, id \in 1..(MaxStored + 1) : GetInspection(u, id)

SpecAccess == InitAccess /\ [][NextAccess]_vars

(***************************************************************************)
(* Claims about the valuation (checked under SpecValue)                    *)
(***************************************************************************)
Valued == valuation # NoResult

\* vehicle age as the code computes it
ArgsAge == currentYear - valuationArgs.year

\* the baseline the lookup yields for the arguments, before depreciation
ArgsBaseline == lookupBaseline(valuationArgs.make, valuationArgs.model)

\* C4: a vehicle year later than the current year is clamped to age 0:
\* no depreciation, the returned marketBaseline is the undepreciated
\* baseline.
C4_FutureYearClampedToZero ==
    (Valued /\ valuationArgs.year > currentYear)
        => valuation.marketBaseline = ArgsBaseline

\* C7: the depreciation rate is min(age x 0.08, 0.5) for every age >= 0:
\* 0 at age 0, 8 points a year up to age 6, exactly 50 % from age 7 on;
\* marketBaseline never drops below half of the looked-up baseline.
C7_DepreciationCapped ==
    (Valued /\ ArgsAge >= 0) =>
        LET rate == CASE ArgsAge = 0 -> 0
                      [] ArgsAge \in 1..6 -> 8 * ArgsAge
                      [] ArgsAge >= 7 -> 50
        IN  /\ depreciationRate(ArgsAge) = rate
            /\ valuation.marketBaseline = MathRound(ArgsBaseline * (100 - rate), 100)
            /\ 2 * valuation.marketBaseline >= ArgsBaseline

\* C7 witness: a vehicle older than 7 years, where 8 % a year would exceed
\* the cap, valued at exactly half of its table price.
C7_Witness ==
    /\ Valued
    /\ ArgsAge > 7
    /\ <<valuationArgs.make, valuationArgs.model>> \in TablePairs
    /\ 2 * valuation.marketBaseline = ArgsBaseline

\* estimatedValue for the same brand, model and year and finalScore f
EstimateFor(f) ==
    calculateMarketValuation(valuationArgs.make, valuationArgs.model,
        valuationArgs.year, f, currentYear).estimatedValue

\* s and 2s both lie in [0, 10]
DoublingApplies == Valued /\ valuationArgs.finalScore \in 0..50

\* C8 as stated: estimatedValue(2s) = 2 x estimatedValue(s).
C8_EstimateDoublesExactly ==
    DoublingApplies =>
        EstimateFor(2 * valuationArgs.finalScore) = 2 * valuation.estimatedValue

\* C8 amended: estimatedValue(2s) and 2 x estimatedValue(s) differ by at
\* most 1, each being rounded to an integer.
C8_EstimateDoublesWithinOne ==
    DoublingApplies =>
        EstimateFor(2 * valuationArgs.finalScore) - 2 * valuation.estimatedValue
            \in {-1, 0, 1}

\* C8 witness: a positive score whose doubled estimate is one more than
\* twice the estimate.
C8_Witness ==
    /\ DoublingApplies
    /\ valuationArgs.finalScore > 0
    /\ valuation.estimatedValue > 0
    /\ EstimateFor(2 * valuationArgs.finalScore) = 2 * valuation.estimatedValue + 1

\* the pair is no key of the price table
NotInPriceTable ==
    <<optToLowerCase(valuationArgs.make), optToLowerCase(valuationArgs.model)>>
        \notin TablePairs

\* C9: a (brand, model) pair that is not in the price table is valued from
\* the fallback baseline 200000, depreciated and condition-adjusted.
C9_UnknownPairUsesFallback ==
    (Valued /\ NotInPriceTable) =>
        LET adjusted == fallbackBaseline * (100 - depreciationRate(ArgsAge))
        IN  /\ valuation.marketBaseline = MathRound(adjusted, 100)
            /\ valuation.estimatedValue =
                   roundProduct(adjusted, valuationArgs.finalScore, 10000)

(***************************************************************************)
(* Claims about the scorers (checked under SpecScore)                      *)
(***************************************************************************)
Scored == scores # NoResult

CategoryScoreFields ==
    {"engineScore", "frameScore", "suspensionScore", "brakesScore",
     "tiresScore", "electricalsScore", "bodyScore", "documentsScore"}

\* C1: each of the eight category scores returned by
\* calculateInspectionScores lies in [0.0, 10.0] (0..100 tenths), however
\* many deductions compound.
C1_CategoryScoresInRange ==
    Scored => \A f \in CategoryScoreFields : scores[f] \in 0..100

\* C1 witness: a scored payload whose body deductions exceed ten points
\* (and whose documents deductions reach ten), scoring 0.
C1_Witness ==
    /\ Scored
    /\ inspectionData.bodyData.bigDents * 5 > 1000
    /\ inspectionData.bodyData.cracks
    /\ scores.bodyScore = 0
    /\ scores.documentsScore = 0

\* the weighted sum of the RETURNED one-decimal category scores
weightedSumOfReturned(r) ==
      r.engineScore * weights.engine
    + r.frameScore * weights.frame
    + r.suspensionScore * weights.suspension
    + r.brakesScore * weights.brakes
    + r.tiresScore * weights.tires
    + r.electricalsScore * weights.electricals
    + r.bodyScore * weights.body
    + r.documentsScore * weights.documents

\* C2: finalScore = round(sum of CategoryScore_i x weight_i / 100, 1) with
\* CategoryScore_i the one-decimal scores returned alongside it, and the
\* all-perfect payload has finalScore 10.0.
C2_FinalScoreFromReturnedScores ==
    Scored =>
        /\ scores.finalScore = MathRound(weightedSumOfReturned(scores), 100)
        /\ (inspectionData = perfectData => scores.finalScore = 100)

\* the deduction, in tenths, that a percentage p earns from a tier table
\* lo / mid / hi, stated range by range
TierOf(p, lo, mid, hi) ==
    CASE p \in 0..29   -> lo
      [] p \in 30..49  -> mid
      [] p \in 50..69  -> hi
      [] p \in 70..100 -> 0

\* C5: brake-pad and tire-tread deductions are mutually exclusive tiers:
\* exactly one of 2.0 / 1.0 / 0.5 / 0 (brakes) and 2.5 / 1.5 / 0.7 / 0
\* (tires) is taken off, a threshold value falling in the higher tier.
C5_TiersExclusive ==
    Scored =>
        LET b == inspectionData.brakesData
            t == inspectionData.tiresData
        IN  /\ scores.brakesScore =
                  roundScore(calculateBrakesScore([b EXCEPT !.padRemaining = 100]))
                  - TierOf(b.padRemaining, 20, 10, 5)
            /\ scores.tiresScore =
                  roundScore(calculateTiresScore([t EXCEPT !.treadRemaining = 100]))
                  - TierOf(t.treadRemaining, 25, 15, 7)

\* C5 witness: padRemaining = 29 with nothing else wrong scored 8.0.
C5_Witness ==
    /\ Scored
    /\ inspectionData.brakesData = [perfectData.brakesData EXCEPT !.padRemaining = 29]
    /\ scores.brakesScore = 80

NoAdverseEngine(o) ==
    /\ o.oilLeaks = "none" /\ o.smoke = "none"
    /\ ~o.abnormalNoise /\ ~o.hardStart /\ ~o.overheating
NoAdverseFrame(o) == ~o.cracks /\ ~o.rust /\ ~o.bends /\ ~o.repaintMarks
NoAdverseSuspension(o) == ~o.leakage /\ ~o.stiffness /\ ~o.abnormalSound
NoAdverseBrakes(o) ==
    o.padRemaining >= 70 /\ ~o.discWarp /\ ~o.fluidLeak /\ o.absStatus
NoAdverseTires(o) ==
    o.treadRemaining >= 70 /\ ~o.cracks /\ ~o.mismatchedPair /\ ~o.ageOver5Years
NoAdverseElectricals(o) ==
    o.lights /\ o.indicators /\ o.horn /\ o.starter /\ o.batteryCondition = "good"
NoAdverseBody(o) ==
    /\ o.minorScratches = 0 /\ o.bigScratches = 0
    /\ o.smallDents = 0 /\ o.bigDents = 0
    /\ ~o.cracks /\ ~o.repaintPanels /\ o.fairingCondition = "excellent"
NoAdverseDocuments(o) == o.registration /\ o.importPapers /\ o.serviceRecords

\* C6: a category observation with no adverse condition flagged scores
\* exactly 10.0, for every category.
C6_NoAdverseScoresTen ==
    Scored =>
        /\ NoAdverseEngine(inspectionData.engineData) => scores.engineScore = 100
        /\ NoAdverseFrame(inspectionData.frameData) => scores.frameScore = 100
        /\ NoAdverseSuspension(inspectionData.suspensionData)
               => scores.suspensionScore = 100
        /\ NoAdverseBrakes(inspectionData.brakesData) => scores.brakesScore = 100
        /\ NoAdverseTires(inspectionData.tiresData) => scores.tiresScore = 100
        /\ NoAdverseElectricals(inspectionData.electricalsData)
               => scores.electricalsScore = 100
        /\ NoAdverseBody(inspectionData.bodyData) => scores.bodyScore = 100
        /\ NoAdverseDocuments(inspectionData.documentsData)
               => scores.documentsScore = 100

\* C6 witness: a scored payload with nothing adverse in any category, the
\* brake pads exactly at the 70 % threshold.
C6_Witness ==
    /\ Scored
    /\ inspectionData = [perfectData EXCEPT !.brakesData.padRemaining = 70]
    /\ \A f \in CategoryScoreFields : scores[f] = 100

(***************************************************************************)
(* Claims about the server (checked under Spec)                            *)
(***************************************************************************)
\* C3: the end-to-end example.  Engine all clear except oilLeaks = "major"
\* and every other category perfect gives engineScore 8.5 and finalScore
\* 9.4; for brand "Honda", model "CD 70", year = current year the valuation
\* is marketBaseline 159900 and estimatedValue 150306.
C3_EndToEndExample ==
    \A i \in DOMAIN inspections :
        LET row == inspections[i]
        IN  (/\ \A f \in ObservationFields : row[f] = exampleData[f]
             /\ row.make = <<"H","o","n","d","a">>
             /\ row.model = <<"C","D"," ","7","0">>
             /\ row.year = row.createdAt)
            => /\ row.engineScore = 85
               /\ row.finalScore = 94
               /\ row.marketBaseline = 159900
               /\ row.estimatedValue = 150306

\* what an inspection stores of the engine's results
StoredResults(row) ==
    [f \in CategoryScoreFields \cup {"finalScore", "marketBaseline", "estimatedValue"}
        |-> row[f]]

\* C10: once an inspection has been created, its stored category scores,
\* finalScore, marketBaseline and estimatedValue never change, whatever
\* happens later (other inspections, scoring-rule updates, years passing).
C10_StoredResultsNeverChange ==
    [][\A i \in DOMAIN inspections :
          /\ i \in DOMAIN inspections'
          /\ StoredResults(inspections'[i]) = StoredResults(inspections[i])]_vars

\* C10 witness: after the first inspection was stored a year has passed
\* (valuing it now would give another marketBaseline), a scoring rule was
\* changed and another inspection was created; the first row still holds
\* the valuation of its creation year.
C10_Witness ==
    /\ Len(inspections) = 2
    /\ scoringRules # seededRules
    /\ inspections[1].createdAt < currentYear
    /\ inspections[2].createdAt = currentYear
    /\ LET row == inspections[1]
       IN  /\ row.marketBaseline =
                 calculateMarketValuation(row.make, row.model, row.year,
                     row.finalScore, row.createdAt).marketBaseline
           /\ row.marketBaseline #
                 calculateMarketValuation(row.make, row.model, row.year,
                     row.finalScore, currentYear).marketBaseline

(***************************************************************************)
(* Further claims about the valuation (checked under SpecValue)            *)
(***************************************************************************)
\* C11: a finalScore outside [0, 10] is tolerated: the condition multiplier
\* is clamped to [0, 1], so estimatedValue is never negative and never more
\* than the returned marketBaseline.
C11_MultiplierClamped ==
    (Valued /\ valuationArgs.finalScore \notin 0..100)
        => /\ valuation.estimatedValue >= 0
           /\ valuation.estimatedValue <= valuation.marketBaseline

(***************************************************************************)
(* Further claims about the server (checked under Spec)                    *)
(***************************************************************************)
\* the weighted sum of the unrounded category scores of payload d under
\* the weights of the stored scoring rules
weightedSumUnder(rules, d) ==
      calculateEngineScore(d.engineData) * rules.engine.weight
    + calculateFrameScore(d.frameData) * rules.frame.weight
    + calculateSuspensionScore(d.suspensionData) * rules.suspension.weight
    + calculateBrakesScore(d.brakesData) * rules.brakes.weight
    + calculateTiresScore(d.tiresData) * rules.tires.weight
    + calculateElectricalsScore(d.electricalsData) * rules.electricals.weight
    + calculateBodyScore(d.bodyData) * rules.body.weight
    + calculateDocumentsScore(d.documentsData) * rules.documents.weight

totalWeight(rules) ==
      rules.engine.weight + rules.frame.weight + rules.suspension.weight
    + rules.brakes.weight + rules.tires.weight + rules.electricals.weight
    + rules.body.weight + rules.documents.weight

\* C12: an inspection created after an admin changed a category weight is
\* scored with the weights stored at that moment; the weighted sum may be
\* normalised by 100 or by the total of the stored weights.
C12_NewInspectionsUseStoredWeights ==
    [][Len(inspections') > Len(inspections) =>
          LET row == inspections'[Len(inspections')]
              sum == weightedSumUnder(scoringRules, row)
          IN  row.finalScore \in
                  {MathRound(sum, 1000),
                   MathRound(sum, 10 * totalWeight(scoringRules))}]_vars

\* the arguments of the valuation of a stored inspection
ValuationArgsOf(row) == <<row.make, row.model, row.year, row.finalScore>>

ValuationOf(row) == <<row.marketBaseline, row.estimatedValue>>

ObservationsOf(row) == [f \in ObservationFields |-> row[f]]

SameLetter(a, b) ==
    \/ a = b
    \/ a \in DOMAIN lowerOf /\ lowerOf[a] = b
    \/ b \in DOMAIN lowerOf /\ lowerOf[b] = a

\* two names that differ at most in the case of their letters
DifferOnlyInCase(s, t) ==
    \/ s = t
    \/ /\ s # Undefined /\ t # Undefined
       /\ Len(s) = Len(t)
       /\ \A i \in 1..Len(s) : SameLetter(s[i], t[i])

\* C15: the price lookup is case-insensitive: a (make, model) pair that
\* differs from the valued one only in letter case yields the same baseline
\* and hence the same valuation.
C15_LookupCaseInsensitive ==
    Valued =>
        \A p \in TablePairs \cup OtherPairs :
            (/\ DifferOnlyInCase(p[1], valuationArgs.make)
             /\ DifferOnlyInCase(p[2], valuationArgs.model))
                => /\ lookupBaseline(p[1], p[2]) = ArgsBaseline
                   /\ calculateMarketValuation(p[1], p[2], valuationArgs.year,
                          valuationArgs.finalScore, currentYear) = valuation

\* C15 witness: "HONDA" / "cd-70" valued from the table price of the key
\* "honda" / "cd-70".
C15_Witness ==
    /\ Valued
    /\ valuationArgs.make = <<"H","O","N","D","A">>
    /\ valuationArgs.model # Undefined
    /\ valuationArgs.year = currentYear
    /\ valuation.marketBaseline = baselines[<<"h","o","n","d","a">>][<<"c","d","-","7","0">>]

C17_InvalidBodyAnswered400 ==
    [][\A u \in Users, b \in RequestBodies :
          (~validInspection(b) /\ PostInspection(u, b))
              => /\ response'.status = 400
                 /\ response'.message = "Invalid inspection data"
                 /\ inspections' = inspections]_vars

\* the request body was sent by Save Draft
IsDraftBody(b) == "status" \in DOMAIN b /\ b.status = "draft"

\* C18: an inspection submitted through Save Draft (status "draft" in the
\* body) is persisted with status "draft".
C18_DraftStoredAsDraft ==
    [][\A u \in Users, b \in RequestBodies :
          (IsDraftBody(b) /\ validInspection(b) /\ PostInspection(u, b))
              => /\ Len(inspections') = Len(inspections) + 1
                 /\ inspections'[Len(inspections')].status = "draft"]_vars

(***************************************************************************)
(* Claims about the penalty tables (checked under SpecScore)               *)
(***************************************************************************)
\* a table penalty, in tenths, taken when its condition is triggered
When(triggered, penalty) == IF triggered THEN penalty ELSE 0

\* the penalty, in tenths, of one level of an enum field
LevelPenalty(level, clear, middle, middlePenalty, worstPenalty) ==
    IF level = clear THEN 0
    ELSE IF level = middle THEN middlePenalty
    ELSE worstPenalty

\* C19: for engine, frame, suspension, brakes, tires, electricals and
\* documents the score is 10 minus the sum of the table penalties of the
\* triggered conditions: damage flags deduct when true, working/present
\* flags deduct when false, each enum field contributes one level's penalty.
C19_ScoreIsTenMinusPenalties ==
    Scored =>
        LET e == inspectionData.engineData
            f == inspectionData.frameData
            s == inspectionData.suspensionData
            b == inspectionData.brakesData
            t == inspectionData.tiresData
            l == inspectionData.electricalsData
            d == inspectionData.documentsData
        IN  /\ scores.engineScore = 100
                  - LevelPenalty(e.oilLeaks, "none", "minor", 5, 15)
                  - LevelPenalty(e.smoke, "none", "light", 8, 20)
                  - When(e.abnormalNoise, 10) - When(e.hardStart, 7)
                  - When(e.overheating, 15)
            /\ scores.frameScore = 100
                  - When(f.cracks, 30) - When(f.rust, 15) - When(f.bends, 25)
                  - When(f.repaintMarks, 5)
            /\ scores.suspensionScore = 100
                  - When(s.leakage, 20) - When(s.stiffness, 15)
                  - When(s.abnormalSound, 10)
            /\ scores.brakesScore = 100
                  - TierOf(b.padRemaining, 20, 10, 5)
                  - When(b.discWarp, 15) - When(b.fluidLeak, 10)
                  - When(~b.absStatus, 5)
            /\ scores.tiresScore = 100
                  - TierOf(t.treadRemaining, 25, 15, 7)
                  - When(t.cracks, 10) - When(t.mismatchedPair, 8)
                  - When(t.ageOver5Years, 12)
            /\ scores.electricalsScore = 100
                  - When(~l.lights, 15) - When(~l.indicators, 10)
                  - When(~l.horn, 5) - When(~l.starter, 20)
                  - LevelPenalty(l.batteryCondition, "good", "fair", 10, 25)
            /\ scores.documentsScore = 100
                  - When(~d.registration, 40) - When(~d.importPapers, 30)
                  - When(~d.serviceRecords, 30)

\* C19 witness: every adverse condition at once: engine 10 - 6.7,
\* electricals 10 - 7.5, documents 10 - 10.
C19_Witness ==
    /\ Scored
    /\ inspectionData = worstData
    /\ scores.engineScore = 33
    /\ scores.electricalsScore = 25
    /\ scores.documentsScore = 0

\* the total body deduction of the specification's table, in hundredths
\* (counts are in tenths)
BodyDeduction(o) ==
      o.minorScratches * 1 + o.bigScratches * 3 + o.smallDents * 2
    + o.bigDents * 5
    + When(o.cracks, 150) + When(o.repaintPanels, 100)
    + (CASE o.fairingCondition = "excellent" -> 0
         [] o.fairingCondition = "good" -> 50
         [] o.fairingCondition = "fair" -> 150
         [] o.fairingCondition = "poor" -> 300)

\* C20: the body score is max(0, 10 - total deduction), the count
\* deductions being uncapped products; it is exactly 0 whenever the total
\* deduction is 10 or more.  The returned bodyScore is that value to one
\* decimal.
C20_BodyScoreUncappedFloored ==
    Scored =>
        LET o == inspectionData.bodyData
            expected == IF BodyDeduction(o) >= 1000 THEN 0
                        ELSE 1000 - BodyDeduction(o)
        IN  /\ calculateBodyScore(o) = expected
            /\ scores.bodyScore = (2 * expected + 10) \div 20
            /\ BodyDeduction(o) >= 1000 => scores.bodyScore = 0

\* C20 witness: the largest dent count alone takes more than 10 points off
\* and the body score is 0.
C20_Witness ==
    /\ Scored
    /\ inspectionData.bodyData.bigDents = MaxCount * 10
    /\ inspectionData.bodyData.bigDents * 5 > 1000
    /\ inspectionData.bodyData.minorScratches = 0
    /\ ~inspectionData.bodyData.cracks
    /\ scores.bodyScore = 0

(***************************************************************************)
(* Claims about the rounding of the valuation (checked under SpecValue)    *)
(***************************************************************************)
\* the depreciated baseline before rounding, in hundredths
ArgsAdjusted == ArgsBaseline * (100 - depreciationRate(ArgsAge))

\* e is x / den rounded to the nearest integer, halves upwards
IsRounded(e, x, den) ==
    /\ 2 * (den * e - x) > 0 - den
    /\ 2 * (den * e - x) <= den

\* C21: the returned marketBaseline is round(baseline x (1 - rate)), the
\* baseline after depreciation; marketBaseline and estimatedValue are
\* integers; estimatedValue is the rounding of the unrounded depreciated
\* baseline times finalScore / 10.
C21_RoundedAfterDepreciation ==
    Valued =>
        LET q == ArgsAdjusted \div 10000
            r == ArgsAdjusted % 10000
            f == valuationArgs.finalScore
        IN  /\ valuation.marketBaseline \in Int
            /\ valuation.estimatedValue \in Int
            /\ IsRounded(valuation.marketBaseline, ArgsAdjusted, 100)
            \* adjusted x f = 10000 x q x f + r x f
            /\ IsRounded(valuation.estimatedValue - q * f, r * f, 10000)

\* C21 witness: a depreciated baseline that is no whole number, where the
\* estimate taken from the rounded marketBaseline would be another one.
C21_Witness ==
    /\ Valued
    /\ ArgsAge \in 1..6
    /\ ArgsAdjusted % 100 # 0
    /\ valuationArgs.finalScore \in 1..100
    /\ valuation.estimatedValue #
           MathRound(valuation.marketBaseline * valuationArgs.finalScore, 100)

\* the results page has been rendered
Rendered == "conditionAdjustment" \in DOMAIN response

C23_UnrecognizedEnumDeductsNothing ==
    Scored =>
        LET e == inspectionData.engineData
            l == inspectionData.electricalsData
            b == inspectionData.bodyData
            clearOil == IF e.oilLeaks \in {"none", "minor", "major"}
                        THEN e.oilLeaks ELSE "none"
            clearSmoke == IF e.smoke \in {"none", "light", "heavy"}
                          THEN e.smoke ELSE "none"
            clearBattery == IF l.batteryCondition \in {"good", "fair", "poor"}
                            THEN l.batteryCondition ELSE "good"
            clearFairing ==
                IF b.fairingCondition \in {"excellent", "good", "fair", "poor"}
                THEN b.fairingCondition ELSE "excellent"
        IN  /\ scores.engineScore =
                  roundScore(calculateEngineScore(
                      [e EXCEPT !.oilLeaks = clearOil, !.smoke = clearSmoke]))
            /\ scores.electricalsScore =
                  roundScore(calculateElectricalsScore(
                      [l EXCEPT !.batteryCondition = clearBattery]))
            /\ scores.bodyScore =
                  roundScore(calculateBodyScore(
                      [b EXCEPT !.fairingCondition = clearFairing]))

(***************************************************************************)
(* Claims about the access rules (checked under SpecAccess)                *)
(***************************************************************************)
\* C24: GET and PUT on /api/scoring-rules by a user whose role is not
\* admin answer 403, and the PUT leaves every stored rule unchanged.
C24_ScoringRulesAdminOnly ==
    [][\A u \in Users :
          roleOf[u] # "admin" =>
              /\ GetScoringRules(u) => response'.status = 403
              /\ \A id \in RuleIds, w \in WeightsTried, c \in BOOLEAN :
                    PutScoringRule(u, id, w, c)
                        => /\ response'.status = 403
                           /\ scoringRules' = scoringRules]_vars

\* C24 witness: an admin has changed a rule, and a later request on the
\* scoring rules was refused.
C24_Witness ==
    /\ response # NoResult
    /\ response.status = 403
    /\ response.message = "Admin access required"
    /\ scoringRules # seededRules
    /\ scoringRules.engine.weight = 50

\* C25: for a user who is no admin, every inspection returned by
\* GET /api/inspections has that user as inspectorId, whatever limit and
\* search the request carries.
C25_ListShowsOwnInspectionsOnly ==
    [][\A u \in Users, q \in Searches, l \in Limits :
          (roleOf[u] # "admin" /\ GetInspections(u, q, l))
              => \A i \in DOMAIN response'.body :
                    response'.body[i].inspectorId = u]_vars

(***************************************************************************)
(* Claims about the seeded catalog (checked under SpecValue)               *)
(***************************************************************************)
\* C26: for every brand and model of the seeded catalog, sent with the
\* display names of the form, the baseline before depreciation is the
\* model's own entry of the price table, not the fallback.
C26_CatalogNamesHitPriceTable ==
    (Valued /\ <<valuationArgs.make, valuationArgs.model>> \in seededCatalog)
        => /\ ~NotInPriceTable
           /\ ArgsBaseline =
                 baselines[toLowerCase(valuationArgs.make)][toLowerCase(valuationArgs.model)]

(***************************************************************************)
(* Claims about what POST /api/inspections persists (checked under Spec)   *)
(***************************************************************************)
\* the request body carries result fields or an inspectorId of its own
CarriesResults(b) ==
    {"inspectorId", "finalScore", "engineScore", "marketBaseline",
     "estimatedValue"} \subseteq DOMAIN b

\* C27: the persisted category scores, finalScore, marketBaseline,
\* estimatedValue and inspectorId are the values the server derives (the
\* scores of the observations, their valuation, the authenticated user),
\* whatever the request body carries for those fields.
C27_PersistedResultsAreServerDerived ==
    [][\A u \in Users, b \in RequestBodies :
          (PostInspection(u, b) /\ Len(inspections') > Len(inspections))
              => LET row == inspections'[Len(inspections')]
                     sc == calculateInspectionScores(ObservationsOf(b))
                     v == calculateMarketValuation(b.make, b.model, b.year,
                                                   sc.finalScore, currentYear)
                 IN  /\ row.inspectorId = u
                     /\ \A f \in DOMAIN sc : row[f] = sc[f]
                     /\ row.marketBaseline = v.marketBaseline
                     /\ row.estimatedValue = v.estimatedValue]_vars

\* C27 witness: a mechanic's body that named the admin as inspector and
\* carried a perfect score and a price of its own is stored under the
\* mechanic with the computed results.
C27_Witness ==
    /\ inspections # <<>>
    /\ \E b \in RequestBodies :
          /\ CarriesResults(b)
          /\ b.inspectorId = "admin-1" /\ b.finalScore = 100
          /\ LET row == inspections[Len(inspections)]
             IN  /\ row.make = b.make /\ ObservationsOf(row) = ObservationsOf(b)
                 /\ row.inspectorId = "mechanic-1"
                 /\ row.finalScore < b.finalScore
                 /\ row.estimatedValue # b.estimatedValue

(***************************************************************************)
(* Claims about the range of the results (checked under SpecScore)         *)
(***************************************************************************)
\* pairs the scored payload is valued for: every key of the price table, a
\* pair that gets the fallback, and a pair that finds the inherited
\* baseline 1
ValuedPairs ==
    TablePairs \cup {<<<<"B","a","j","a","j">>, <<"P","u","l","s","a","r">>>>,
                     <<<<"c","o","n","s","t","r","u","c","t","o","r">>, <<"l","e","n","g","t","h">>>>}

\* the least score each category can have for a schema-valid payload, in
\* tenths
LeastCategoryScores ==
    [engineScore |-> 33, frameScore |-> 25, suspensionScore |-> 55,
     brakesScore |-> 50, tiresScore |-> 45, electricalsScore |-> 25,
     bodyScore |-> 0, documentsScore |-> 0]

\* C28: for every schema-valid payload each category score is at least its
\* least value, finalScore is at least 3.3, and hence, for a positive
\* baseline, estimatedValue is never 0.
C28_FinalScoreAtLeastThreeThree ==
    Scored =>
        /\ \A f \in CategoryScoreFields : scores[f] >= LeastCategoryScores[f]
        /\ scores.finalScore >= 33
        /\ \A p \in ValuedPairs, y \in {currentYear - MaxAge, currentYear} :
              lookupBaseline(p[1], p[2]) > 0
                  => calculateMarketValuation(p[1], p[2], y, scores.finalScore,
                                              currentYear).estimatedValue > 0

(***************************************************************************)
(* Claims about monotonicity of the scoring (checked under SpecScore)      *)
(***************************************************************************)
\* the enum levels from the least to the most adverse
LevelOrder ==
    [oilLeaks |-> <<"none", "minor", "major">>,
     smoke |-> <<"none", "light", "heavy">>,
     batteryCondition |-> <<"good", "fair", "poor">>,
     fairingCondition |-> <<"excellent", "good", "fair", "poor">>]

PercentageFields == {"padRemaining", "treadRemaining"}

CountFields == {"minorScratches", "bigScratches", "smallDents", "bigDents"}

\* flags whose adverse value is FALSE; every other flag is a damage flag
WorkingFlags ==
    {"absStatus", "lights", "indicators", "horn", "starter", "registration",
     "importPapers", "serviceRecords"}

\* the values of field f that are more adverse than v: every worse level,
\* the next lower percentage and the top of each lower tier, every higher
\* count tried, the adverse value of a flag
WorseValues(f, v) ==
    IF f \in DOMAIN LevelOrder
    THEN {LevelOrder[f][i] : i \in {j \in 1..Len(LevelOrder[f]) :
              \E k \in 1..(j - 1) : LevelOrder[f][k] = v}}
    ELSE IF f \in PercentageFields
    THEN {w \in {v - 1, 69, 49, 29, 0} : w >= 0 /\ w < v}
    ELSE IF f \in CountFields
    THEN {w \in CountValues : w > v}
    ELSE IF f \in WorkingFlags
    THEN (IF v THEN {FALSE} ELSE {})
    ELSE (IF v THEN {} ELSE {TRUE})

ScoreFieldOf ==
    [engineData |-> "engineScore", frameData |-> "frameScore",
     suspensionData |-> "suspensionScore", brakesData |-> "brakesScore",
     tiresData |-> "tiresScore", electricalsData |-> "electricalsScore",
     bodyData |-> "bodyScore", documentsData |-> "documentsScore"]

\* the vehicles the two payloads are valued for
MonotonePairs == {<<<<"h","o","n","d","a">>, <<"c","d","-","7","0">>>>,
                  <<<<"B","a","j","a","j">>, <<"P","u","l","s","a","r">>>>}

EstimateWith(p, y, finalScore) ==
    calculateMarketValuation(p[1], p[2], y, finalScore, currentYear).estimatedValue

\* C29: making one observation more adverse with everything else fixed
\* never raises that category's score, the finalScore or the
\* estimatedValue, and leaves the other seven category scores as they were.
C29_WorseObservationNeverScoresHigher ==
    Scored =>
        \A c \in ObservationFields :
            \A f \in DOMAIN inspectionData[c] :
                \A w \in WorseValues(f, inspectionData[c][f]) :
                    LET worse == calculateInspectionScores(
                                     [inspectionData EXCEPT ![c][f] = w])
                    IN  /\ worse[ScoreFieldOf[c]] <= scores[ScoreFieldOf[c]]
                        /\ \A g \in CategoryScoreFields \ {ScoreFieldOf[c]} :
                              worse[g] = scores[g]
                        /\ worse.finalScore <= scores.finalScore
                        /\ \A p \in MonotonePairs,
                              y \in {currentYear - 3, currentYear + 1} :
                              EstimateWith(p, y, worse.finalScore)
                                  <= EstimateWith(p, y, scores.finalScore)

\* a scored payload with a tread of 1 percent, for which the tread of 0 is
\* a worse observation of the same tier, and one whose major oil leak
\* strictly lowers the engine score, the finalScore and the estimate
C29_Witness ==
    /\ Scored
    /\ inspectionData.tiresData.treadRemaining = 1
    /\ 0 \in WorseValues("treadRemaining", 1)
    /\ inspectionData.engineData.oilLeaks = "none"
    /\ LET worse == calculateInspectionScores(
                         [inspectionData EXCEPT !.engineData.oilLeaks = "major"])
       IN  /\ worse.engineScore < scores.engineScore
           /\ worse.finalScore < scores.finalScore
           /\ \E p \in MonotonePairs :
                 EstimateWith(p, currentYear - 3, worse.finalScore)
                     < EstimateWith(p, currentYear - 3, scores.finalScore)

(***************************************************************************)
(* Claims about the order of the valuation's numbers                       *)
(* (checked under SpecInherited)                                           *)
(***************************************************************************)
\* a <= b as JavaScript compares numbers: false when either is NaN
NumLeq(a, b) == a # NaN /\ b # NaN /\ a <= b

\* the finalScore is one the scorers can return and the year is not in
\* the future
PastYearValidScore ==
    /\ Valued
    /\ valuationArgs.year <= currentYear
    /\ valuationArgs.finalScore \in 0..100

\* C30: for a year not later than the current year,
\* 0 <= estimatedValue <= marketBaseline <= the looked-up baseline, and a
\* vehicle one year older has no higher marketBaseline.
C30_EstimateWithinBaseline ==
    PastYearValidScore =>
        /\ NumLeq(0, valuation.estimatedValue)
        /\ NumLeq(valuation.estimatedValue, valuation.marketBaseline)
        /\ NumLeq(valuation.marketBaseline, ArgsBaseline)
        /\ NumLeq(calculateMarketValuation(valuationArgs.make, valuationArgs.model,
                      valuationArgs.year - 1, valuationArgs.finalScore,
                      currentYear).marketBaseline,
                  valuation.marketBaseline)

=========================================================================
